---- MODULE Spec2Model ----
(***************************************************************************)
(* Model of web-weather-dashboard/weather_api.py: two weather providers    *)
(* (OpenWeatherMapAPI, TomorrowAPI), the module-level provider instances,  *)
(* and the two FastAPI route handlers that call them.                      *)
(*                                                                         *)
(* One server process is modelled.  Its route handlers are coroutines      *)
(* (async def) run by a single event loop; the call requests.get inside    *)
(* get_weather is an ordinary synchronous call, so the coroutine holds the *)
(* loop from the moment it is started until it returns or raises.          *)
(***************************************************************************)
EXTENDS Integers, Sequences, FiniteSets, TLC

\* ------------------------------------------------------------------ bounds
\* Number of inbound HTTP requests the clients send during a run.
NumReqs == 2

Reqs == 1..NumReqs

\* ------------------------------------------------------ environment values
\* Python's None, as returned by os.getenv for a variable that is not set.
None == "<None>"

\* Attribute value of a provider object that has not been constructed yet.
Unset == "<unset>"

\* The environment variables the two constructors read.
EnvVars == {"OPENWEATHERMAP_API_KEY", "TOMORROW_API_KEY_API_KEY"}

\* Values a variable of the process environment may hold at start-up.
EnvValues == {None, "secret"}

\* The module-level provider instances.
Providers == {"open_weather_api", "tomorrow_api"}

NoProvider == "<no provider>"

\* Inbound request paths, split at "/".  The last one carries a location
\* that itself contains a "/".
Paths ==
  { <<"weather", "openweathermap", "London">>,
    <<"weather", "tomorrow", "Paris">>,
    <<"weather", "accuweather", "London">>,
    <<"weather", "tomorrow", "Paris", "FR">> }

\* Status codes an upstream provider may answer with.
UpstreamStatuses == {200, 201, 401, 404}

\* Response bodies an upstream provider may send: a JSON object given by its
\* members in wire order (a member name may repeat), or text that is no JSON.
Bodies ==
  { [json |-> TRUE,  members |-> << <<"temp", 15>> >>],
    [json |-> TRUE,  members |-> << <<"temp", 15>>, <<"temp", 20>> >>],
    [json |-> FALSE, members |-> << >>] }

\* Ways the network call can fail to complete.
TransportCauses == {"connection refused", "timeout"}

\* What requests.get can come back with.
NetOutcomes ==
  [kind : {"response"}, status : UpstreamStatuses, body : Bodies, cause : {"-"}]
  \cup
  [kind : {"failure"}, status : {0}, body : {[json |-> FALSE, members |-> << >>]},
   cause : TransportCauses]

NoNet == [kind |-> "none", status |-> 0,
          body |-> [json |-> FALSE, members |-> << >>], cause |-> "-"]

\* ------------------------------------------------------------------- state
VARIABLES
  env,        \* process environment: EnvVars -> EnvValues
  phase,      \* position of module import: "import", "owm_built", "serving"
  providers,  \* provider instance -> [api_key, base_url]
  loop,       \* request whose coroutine holds the event loop, 0 if none
  pc,         \* request -> "idle", "pending", "in_call", "done"
  path,       \* request -> its path
  served_by,  \* request -> provider instance its handler called
  sent,       \* request -> sequence of outbound calls made for it
  net,        \* request -> outcome of its outbound call
  gw,         \* request -> outcome of get_weather
  resp        \* request -> response the caller receives

vars == <<env, phase, providers, loop, pc, path, served_by, sent, net, gw, resp>>

\* ------------------------------------------------------------ constructors
\* os.getenv(name)
getenv(name) == env[name]

\* OpenWeatherMapAPI.__init__
OpenWeatherMapAPI_new ==
  [api_key |-> getenv("OPENWEATHERMAP_API_KEY"),
   base_url |-> "http://api.openweathermap.org/data/2.5/weather"]

\* TomorrowAPI.__init__
TomorrowAPI_new ==
  [api_key |-> getenv("TOMORROW_API_KEY_API_KEY"),
   base_url |-> "http://api.tomorrow.io/v4/weather/realtime"]

\* ------------------------------------------------------------- get_weather
\* response.json(): the decoded object; a repeated member keeps its last value.
RECURSIVE json(_)
json(members) ==
  IF members = << >> THEN << >>
  ELSE LET n    == Len(members)
           k    == members[n][1]
           rest == json(SubSeq(members, 1, n - 1))
       IN  [x \in DOMAIN rest \cup {k} |-> IF x = k THEN members[n][2] ELSE rest[x]]

NoValue == << >>
NoExc == [type |-> "None"]

Return(value) == [kind |-> "return", value |-> value, exc |-> NoExc]
Raise(exc)    == [kind |-> "raise", value |-> NoValue, exc |-> exc]
NoOutcome     == [kind |-> "none", value |-> NoValue, exc |-> NoExc]

\* requests.get raising because the exchange could not complete.
ConnectionError(cause) == [type |-> "ConnectionError", args |-> <<cause>>]

\* response.json() raising on a body that is no JSON.
JSONDecodeError == [type |-> "JSONDecodeError", args |-> <<"Expecting value">>]

\* Exception(f"Failed to fetch weather data: {response.status_code}")
FetchFailed(status) ==
  [type |-> "Exception",
   args |-> <<"Failed to fetch weather data: ", ToString(status)>>]

\* The query parameters OpenWeatherMapAPI.get_weather builds.
OpenWeatherMapAPI_params(self, location) ==
  [q |-> location, appid |-> self.api_key, units |-> "metric"]

\* The query parameters TomorrowAPI.get_weather builds.
TomorrowAPI_params(self, location) ==
  [location |-> location, apikey |-> self.api_key]

\* OpenWeatherMapAPI.get_weather from the return of requests.get on.
OpenWeatherMapAPI_get_weather(outcome) ==
  IF outcome.kind = "failure" THEN Raise(ConnectionError(outcome.cause))
  ELSE IF outcome.status = 200
       THEN IF outcome.body.json THEN Return(json(outcome.body.members))
            ELSE Raise(JSONDecodeError)
       ELSE Raise(FetchFailed(outcome.status))

\* A get_weather that catches every failure of the call and raises its own
\* error for it.
TomorrowAPI_get_weather_catch_all(outcome) ==
  IF outcome.kind = "failure" THEN Raise(FetchFailed(outcome.status))
  ELSE IF outcome.status = 200
       THEN IF outcome.body.json THEN Return(json(outcome.body.members))
            ELSE Raise(JSONDecodeError)
       ELSE Raise(FetchFailed(outcome.status))

\* TomorrowAPI.get_weather from the return of requests.get on.
TomorrowAPI_get_weather(outcome) ==
  IF outcome.kind = "failure" THEN Raise(ConnectionError(outcome.cause))
  ELSE IF outcome.status = 200
       THEN IF outcome.body.json THEN Return(json(outcome.body.members))
            ELSE Raise(JSONDecodeError)
       ELSE Raise(FetchFailed(outcome.status))

\* ------------------------------------------------------------------ routes
\* A route table whose first route takes any provider name.
MatchRouteAnyName(p) ==
  IF Len(p) = 3 /\ p[1] = "weather" /\ p[3] # ""
  THEN IF p[2] = "tomorrow" THEN "tomorrow_api" ELSE "open_weather_api"
  ELSE NoProvider

\* The route table the two @app.get decorators register: the provider instance
\* whose handler serves a path, NoProvider when no route matches.  A path
\* parameter matches exactly one non-empty segment.
MatchRoute(p) ==
  IF Len(p) = 3 /\ p[1] = "weather" /\ p[3] # ""
  THEN IF p[2] = "openweathermap" THEN "open_weather_api"
       ELSE IF p[2] = "tomorrow" THEN "tomorrow_api"
       ELSE NoProvider
  ELSE NoProvider

\* HTTPException(status_code=..., detail=...)
HTTPException(status_code, detail) ==
  [type |-> "HTTPException", status_code |-> status_code, detail |-> detail]

\* A handler that loses the value of get_weather (no return statement).
get_openweathermap_weather_no_return(g) ==
  IF g.kind = "raise" /\ g.exc.type = "HTTPException"
  THEN Raise(HTTPException(g.exc.status_code, g.exc.detail))
  ELSE IF g.kind = "return" THEN Return(NoValue) ELSE g

\* get_openweathermap_weather, given the outcome g of its get_weather call:
\*   try: return open_weather_api.get_weather(location)
\*   except HTTPException as e: raise HTTPException(e.status_code, e.detail)
get_openweathermap_weather(g) ==
  IF g.kind = "raise" /\ g.exc.type = "HTTPException"
  THEN Raise(HTTPException(g.exc.status_code, g.exc.detail))
  ELSE g

\* get_tomorrow_weather, given the outcome g of its get_weather call:
\*   try: return tomorrow_api.get_weather(location)
\*   except HTTPException as e: raise HTTPException(e.status_code, e.detail)
get_tomorrow_weather(g) ==
  IF g.kind = "raise" /\ g.exc.type = "HTTPException"
  THEN Raise(HTTPException(g.exc.status_code, g.exc.detail))
  ELSE g

NoResp == [status |-> 0, content |-> NoValue]

\* What the framework answers the caller with for a handler's outcome.
Respond(h) ==
  IF h.kind = "return" THEN [status |-> 200, content |-> h.value]
  ELSE IF h.exc.type = "HTTPException"
       THEN [status |-> h.exc.status_code, content |-> NoValue]
       ELSE [status |-> 500, content |-> NoValue]

\* What the framework answers when no route matches the path.
NotFound == [status |-> 404, content |-> NoValue]

\* ----------------------------------------------------------------- actions
Init ==
  /\ env \in [EnvVars -> EnvValues]
  /\ phase = "import"
  /\ providers = [p \in Providers |-> [api_key |-> Unset, base_url |-> Unset]]
  /\ loop = 0
  /\ pc = [r \in Reqs |-> "idle"]
  /\ path = [r \in Reqs |-> << >>]
  /\ served_by = [r \in Reqs |-> NoProvider]
  /\ sent = [r \in Reqs |-> << >>]
  /\ net = [r \in Reqs |-> NoNet]
  /\ gw = [r \in Reqs |-> NoOutcome]
  /\ resp = [r \in Reqs |-> NoResp]

\* open_weather_api = OpenWeatherMapAPI()
BuildOpenWeather ==
  /\ phase = "import"
  /\ providers' = [providers EXCEPT !["open_weather_api"] = OpenWeatherMapAPI_new]
  /\ phase' = "owm_built"
  /\ UNCHANGED <<env, loop, pc, path, served_by, sent, net, gw, resp>>

\* tomorrow_api = TomorrowAPI(); the module is imported and the app serves.
BuildTomorrow ==
  /\ phase = "owm_built"
  /\ providers' = [providers EXCEPT !["tomorrow_api"] = TomorrowAPI_new]
  /\ phase' = "serving"
  /\ UNCHANGED <<env, loop, pc, path, served_by, sent, net, gw, resp>>

\* A client sends a request; it waits until the event loop takes it.
Arrive(r) ==
  /\ phase = "serving"
  /\ pc[r] = "idle"
  /\ \E p \in Paths: path' = [path EXCEPT ![r] = p]
  /\ pc' = [pc EXCEPT ![r] = "pending"]
  /\ UNCHANGED <<env, phase, providers, loop, served_by, sent, net, gw, resp>>

\* The event loop takes a request whose path matches no route.
RouteNotFound(r) ==
  /\ pc[r] = "pending"
  /\ loop = 0
  /\ MatchRoute(path[r]) = NoProvider
  /\ resp' = [resp EXCEPT ![r] = NotFound]
  /\ pc' = [pc EXCEPT ![r] = "done"]
  /\ UNCHANGED <<env, phase, providers, loop, path, served_by, sent, net, gw>>

\* The outbound call get_weather makes on provider instance p.
OutboundCall(p, location) ==
  [url |-> providers[p].base_url,
   params |-> IF p = "open_weather_api"
              THEN OpenWeatherMapAPI_params(providers[p], location)
              ELSE TomorrowAPI_params(providers[p], location)]

\* A dispatch whose get_weather stores the key it sends with the location.
DispatchStoringKey(r) ==
  /\ pc[r] = "pending"
  /\ loop = 0
  /\ MatchRoute(path[r]) # NoProvider
  /\ LET p == MatchRoute(path[r]) IN
       /\ served_by' = [served_by EXCEPT ![r] = p]
       /\ sent' = [sent EXCEPT ![r] = Append(@, OutboundCall(p, path[r][3]))]
       /\ providers' = [providers EXCEPT ![p].api_key = path[r][3]]
  /\ loop' = r
  /\ pc' = [pc EXCEPT ![r] = "in_call"]
  /\ UNCHANGED <<env, phase, path, net, gw, resp>>

\* The event loop takes a request and runs its handler up to requests.get.
Dispatch(r) ==
  /\ pc[r] = "pending"
  /\ loop = 0
  /\ MatchRoute(path[r]) # NoProvider
  /\ LET p == MatchRoute(path[r]) IN
       /\ served_by' = [served_by EXCEPT ![r] = p]
       /\ sent' = [sent EXCEPT ![r] = Append(@, OutboundCall(p, path[r][3]))]
  /\ loop' = r
  /\ pc' = [pc EXCEPT ![r] = "in_call"]
  /\ UNCHANGED <<env, phase, providers, path, net, gw, resp>>

\* A completion that calls again, once, when the first call did not succeed.
CompleteRetrying(r) ==
  /\ pc[r] = "in_call"
  /\ \E outcome \in NetOutcomes:
       LET g == IF served_by[r] = "open_weather_api"
                THEN OpenWeatherMapAPI_get_weather(outcome)
                ELSE TomorrowAPI_get_weather(outcome)
           h == IF served_by[r] = "open_weather_api"
                THEN get_openweathermap_weather(g)
                ELSE get_tomorrow_weather(g)
       IN  IF g.kind = "raise" /\ Len(sent[r]) = 1
           THEN /\ sent' = [sent EXCEPT ![r] = Append(@, @[1])]
                /\ UNCHANGED <<net, gw, resp, loop, pc>>
           ELSE /\ net' = [net EXCEPT ![r] = outcome]
                /\ gw' = [gw EXCEPT ![r] = g]
                /\ resp' = [resp EXCEPT ![r] = Respond(h)]
                /\ loop' = 0
                /\ pc' = [pc EXCEPT ![r] = "done"]
                /\ UNCHANGED sent
  /\ UNCHANGED <<env, phase, providers, path, served_by>>

\* requests.get comes back; get_weather and the handler run to their end.
Complete(r) ==
  /\ pc[r] = "in_call"
  /\ \E outcome \in NetOutcomes:
       LET g == IF served_by[r] = "open_weather_api"
                THEN OpenWeatherMapAPI_get_weather(outcome)
                ELSE TomorrowAPI_get_weather(outcome)
           h == IF served_by[r] = "open_weather_api"
                THEN get_openweathermap_weather(g)
                ELSE get_tomorrow_weather(g)
       IN  /\ net' = [net EXCEPT ![r] = outcome]
           /\ gw' = [gw EXCEPT ![r] = g]
           /\ resp' = [resp EXCEPT ![r] = Respond(h)]
  /\ loop' = 0
  /\ pc' = [pc EXCEPT ![r] = "done"]
  /\ UNCHANGED <<env, phase, providers, path, served_by, sent>>

Next ==
  \/ BuildOpenWeather
  \/ BuildTomorrow
  \/ \E r \in Reqs: Arrive(r)
  \/ \E r \in Reqs: RouteNotFound(r)
  \/ \E r \in Reqs: Dispatch(r)
  \/ \E r \in Reqs: Complete(r)

Spec == Init /\ [][Next]_vars

\* ------------------------------------------------------------- properties
Handled(r) == served_by[r] # NoProvider
Done(r) == pc[r] = "done"
Success2xx(status) == status \in 200..299
Decoded(r) == json(net[r].body.members)

\* C1: on either route, when the upstream provider answers with a non-success
\* status code S, the caller receives an error response whose status code is S.
C1_UpstreamStatusPassedThrough ==
  \A r \in Reqs:
    (Done(r) /\ Handled(r) /\ net[r].kind = "response"
       /\ ~Success2xx(net[r].status))
    => resp[r].status = net[r].status

\* C2 as stated: for every provider, when the upstream response has a success
\* status (any 2xx) and a decodable body, get_weather returns the decoded
\* payload and the caller receives that payload with status 200.
C2_SuccessStatusPassThrough ==
  \A r \in Reqs:
    (Done(r) /\ Handled(r) /\ net[r].kind = "response"
       /\ Success2xx(net[r].status) /\ net[r].body.json)
    => /\ gw[r] = Return(Decoded(r))
       /\ resp[r] = [status |-> 200, content |-> Decoded(r)]

\* C2 amended: for every provider, when the upstream response has status
\* exactly 200 and a decodable body, get_weather returns the decoded payload
\* and the caller receives that payload with status 200.
C2_Status200PassThrough ==
  \A r \in Reqs:
    (Done(r) /\ Handled(r) /\ net[r].kind = "response"
       /\ net[r].status = 200 /\ net[r].body.json)
    => /\ gw[r] = Return(Decoded(r))
       /\ resp[r] = [status |-> 200, content |-> Decoded(r)]

\* Both providers have relayed a decoded payload of a status-200 response.
C2_Witness ==
  \A p \in Providers:
    \E r \in Reqs:
      /\ Done(r) /\ served_by[r] = p
      /\ net[r].kind = "response" /\ net[r].status = 200 /\ net[r].body.json
      /\ Len(net[r].body.members) = 2
      /\ resp[r].status = 200 /\ resp[r].content = Decoded(r)

\* C3: for every provider, when the upstream response has a non-success status
\* code S, get_weather fails with an error that carries S as data of the error
\* (an attribute holding the status code), and returns no payload.
C3_ProviderErrorCarriesStatus ==
  \A r \in Reqs:
    (Done(r) /\ Handled(r) /\ net[r].kind = "response"
       /\ ~Success2xx(net[r].status))
    => /\ gw[r].kind = "raise"
       /\ "status_code" \in DOMAIN gw[r].exc
       /\ gw[r].exc.status_code = net[r].status

\* C4: in every state where a request is being handled, both providers hold an
\* API key that is not missing.
C4_HandlingImpliesKeysPresent ==
  \A r \in Reqs:
    (pc[r] = "in_call")
    => \A p \in Providers: providers[p].api_key \notin {None, Unset}

\* C5: while one request is in its outbound provider call, any other request
\* that has arrived can be taken up by the server.
C5_OtherRequestsNotBlocked ==
  \A r \in Reqs: \A q \in Reqs:
    (r # q /\ pc[r] = "in_call" /\ pc[q] = "pending")
    => ENABLED (Dispatch(q) \/ RouteNotFound(q))

C7_TransportStatusFixedAndDistinct ==
  \A r \in Reqs: \A q \in Reqs:
    (Done(r) /\ Handled(r) /\ Done(q) /\ Handled(q) /\ net[r].kind = "failure")
    => /\ net[q].kind = "failure" => resp[q].status = resp[r].status
       /\ (net[q].kind = "response" /\ ~Success2xx(net[q].status))
            => resp[q].status # resp[r].status

\* C8: every handled request has issued exactly one outbound network call,
\* whatever its outcome; a request no handler ran for has issued none.
C8_ExactlyOneOutboundCall ==
  \A r \in Reqs: Len(sent[r]) = IF Handled(r) THEN 1 ELSE 0

\* Requests have completed with a transport failure and with a non-success
\* status, each after a single outbound call.
C8_Witness ==
  /\ \E r \in Reqs: Done(r) /\ net[r].kind = "failure" /\ Len(sent[r]) = 1
  /\ \E r \in Reqs: Done(r) /\ net[r].kind = "response" /\ net[r].status = 401
                    /\ Len(sent[r]) = 1

\* C9: a request naming openweathermap is served by the OpenWeatherMap
\* instance only, one naming tomorrow by the Tomorrow instance only, and one
\* naming any other provider calls no provider and is answered 404, a status
\* no request that reached a handler is answered with.
C9_DispatchByProviderName ==
  \A r \in Reqs:
    (pc[r] \in {"in_call", "done"})
    => /\ path[r][2] = "openweathermap"
            => /\ served_by[r] \in {"open_weather_api", NoProvider}
               /\ Len(path[r]) = 3 => served_by[r] = "open_weather_api"
       /\ path[r][2] = "tomorrow"
            => /\ served_by[r] \in {"tomorrow_api", NoProvider}
               /\ Len(path[r]) = 3 => served_by[r] = "tomorrow_api"
       /\ Handled(r)
            => /\ sent[r][1].url = providers[served_by[r]].base_url
               /\ Done(r) => resp[r].status # NotFound.status
       /\ path[r][2] \notin {"openweathermap", "tomorrow"}
            => /\ ~Handled(r) /\ sent[r] = << >>
               /\ resp[r] = NotFound

\* A request naming an unknown provider has been answered 404 while another
\* request was served by a provider.
C9_Witness ==
  /\ \E r \in Reqs: Done(r) /\ path[r][2] = "accuweather" /\ resp[r].status = 404
  /\ \E r \in Reqs: Done(r) /\ served_by[r] = "tomorrow_api"

\* C10: once constructed, each provider's api_key and base_url keep the values
\* its constructor set, through any sequence of requests.
C10_ConfigurationFixed ==
  phase = "serving"
  => /\ providers["open_weather_api"] =
          [api_key |-> env["OPENWEATHERMAP_API_KEY"],
           base_url |-> "http://api.openweathermap.org/data/2.5/weather"]
     /\ providers["tomorrow_api"] =
          [api_key |-> env["TOMORROW_API_KEY_API_KEY"],
           base_url |-> "http://api.tomorrow.io/v4/weather/realtime"]

\* Both providers have served requests, one successfully and one failing, and
\* hold the configuration their constructors set.
C10_Witness ==
  /\ \E r \in Reqs: Done(r) /\ served_by[r] = "open_weather_api"
                    /\ gw[r].kind = "return"
  /\ \E r \in Reqs: Done(r) /\ served_by[r] = "tomorrow_api"
                    /\ gw[r].kind = "raise"
  /\ providers["open_weather_api"].api_key = env["OPENWEATHERMAP_API_KEY"]
  /\ providers["tomorrow_api"].api_key = env["TOMORROW_API_KEY_API_KEY"]

====
